---- MODULE Spec2Model ----
(***************************************************************************)
(* Model of the Vocabulary class of DependencyTreeRNN++ (Vocabulary.cpp): *)
(* the vocabulary vector with its two inverse maps, the frequency sort,   *)
(* the class-file reader and the assignment of words to classes.          *)
(*                                                                         *)
(* C++ vectors are modelled as functions over 0..size-1 so that indices   *)
(* are the program's indices.  Three specifications share the variables:  *)
(*   Spec         vocabulary building (Add / SetWordCount / Sort)         *)
(*   SpecClasses  AssignWordsToClasses on a drawn vocabulary               *)
(*   SpecRead     ReadClasses on a drawn class file                        *)
(***************************************************************************)
EXTENDS Integers, Sequences, FiniteSets, TLC

(* ------------------------------ bounds --------------------------------- *)
\* largest count a word reaches by counting or by SetWordCount (Spec)
MaxCount == 3
\* largest vocabulary drawn for AssignWordsToClasses (SpecClasses)
MaxVocab == 4
\* largest m_numClasses drawn (SpecClasses)
MaxClasses == 3
\* longest class file, in (word, class) pairs (SpecRead)
MaxPairs == 3
\* largest class id written in a class file or carried by an entry
MaxClassId == 2
\* resolution of the fixed-point stand-in for double: 1/Scale
Scale == 100

(* ------------------------- program constants --------------------------- *)
INT_MAX == 2147483647
EOS == "</s>"
BOS == "<s>"

\* words fed to the vocabulary-building operations
Words == {EOS, "a", "b"}

(* ------------------------------ state ---------------------------------- *)
VARIABLES
  m_vocabularyStorage,  \* vector<VocabWord>: [0..n-1 -> [word, cn, classIndex]]
  m_mapWord2Index,      \* unordered_map<string,int>
  m_mapIndex2Word,      \* unordered_map<int,string>
  m_mapWord2Class,      \* unordered_map<string,int> filled by ReadClasses
  m_classes,            \* set<int> filled by ReadClasses
  m_classWords,         \* vector<vector<int>>: [0..numClasses-1 -> Seq(index)]
  m_numClasses,         \* int
  m_useClassFile,       \* bool
  file,                 \* the class file handed to ReadClasses
  op,                   \* the last call made: [name, word, count]
  ret,                  \* int returned by the last AddWordToVocabulary
  ok,                   \* bool returned by the last SetWordCount / ReadClasses
  status,               \* how the last call ended: "ok", "assert_failed", "out_of_bounds"
  before,               \* history: m_vocabularyStorage when the last call began
  calls,                \* history: number of AddWordToVocabulary calls per word
  onlyAdds              \* history: no call other than AddWordToVocabulary so far

vars == <<m_vocabularyStorage, m_mapWord2Index, m_mapIndex2Word, m_mapWord2Class,
          m_classes, m_classWords, m_numClasses, m_useClassFile, file, op, ret,
          ok, status, before, calls, onlyAdds>>

(* ----------------------------- helpers --------------------------------- *)
EmptyVec == [i \in {} |-> 0]

VocabWord(w, c, k) == [word |-> w, cn |-> c, classIndex |-> k]

Size(vec) == Cardinality(DOMAIN vec)

GetVocabularySize == Size(m_vocabularyStorage)

PushBack(vec, x) ==
  [i \in 0..Size(vec) |-> IF i < Size(vec) THEN vec[i] ELSE x]

\* int Vocabulary::SearchWordInVocabulary(word) const
SearchWordInVocabulary(word) ==
  IF word \in DOMAIN m_mapWord2Index THEN m_mapWord2Index[word] ELSE -1

MapPut(map, k, v) == [x \in (DOMAIN map) \cup {k} |-> IF x = k THEN v ELSE map[x]]

(* ------------------------ AddWordToVocabulary -------------------------- *)
\* mutant: the count starts at 0, as the comment in the code says
ZeroCountVocabWord(word) == VocabWord(word, 0, 0)

\* the entry pushed for an unknown word (w.cn = 1, value-initialised class)
NewVocabWord(word) == VocabWord(word, 1, 0)

AddWordToVocabulary(word) ==
  LET index == SearchWordInVocabulary(word) IN
  /\ index # -1 => m_vocabularyStorage[index].cn < MaxCount  \* cap on cn++
  /\ IF index = -1
       THEN /\ m_vocabularyStorage' = PushBack(m_vocabularyStorage, NewVocabWord(word))
            /\ m_mapWord2Index' = MapPut(m_mapWord2Index, word, GetVocabularySize)
            /\ m_mapIndex2Word' = MapPut(m_mapIndex2Word, GetVocabularySize, word)
            /\ ret' = GetVocabularySize
       ELSE /\ m_vocabularyStorage' =
                 [m_vocabularyStorage EXCEPT ![index].cn = @ + 1]
            /\ UNCHANGED <<m_mapWord2Index, m_mapIndex2Word>>
            /\ ret' = index
  /\ op' = [name |-> "Add", word |-> word, count |-> 0]
  /\ before' = m_vocabularyStorage
  /\ calls' = IF onlyAdds THEN [calls EXCEPT ![word] = @ + 1] ELSE calls
  /\ UNCHANGED <<m_mapWord2Class, m_classes, m_classWords, m_numClasses,
                 m_useClassFile, file, ok, status, onlyAdds>>

(* ---------------------------- SetWordCount ----------------------------- *)
SetWordCount(word, count) ==
  LET index == SearchWordInVocabulary(word) IN
  /\ IF index > -1
       THEN /\ m_vocabularyStorage' = [m_vocabularyStorage EXCEPT ![index].cn = count]
            /\ ok' = TRUE
       ELSE /\ UNCHANGED m_vocabularyStorage
            /\ ok' = FALSE
  /\ op' = [name |-> "SetWordCount", word |-> word, count |-> count]
  /\ before' = m_vocabularyStorage
  /\ onlyAdds' = FALSE
  /\ calls' = [w \in Words |-> 0]
  /\ UNCHANGED <<m_mapWord2Index, m_mapIndex2Word, m_mapWord2Class, m_classes,
                 m_classWords, m_numClasses, m_useClassFile, file, ret, status>>

(* ----------------------- SortVocabularyByFrequency --------------------- *)
\* bool OrderWordCounts(a, b)
OrderWordCounts(a, b) == a.cn > b.cn

\* the outcomes of std::sort(begin, end, OrderWordCounts): every permutation
\* of the vector in which no element is ordered before an earlier one
\* (std::sort is not stable: the order of equal counts is unspecified)
StdSort(vec) ==
  { [i \in DOMAIN vec |-> vec[p[i]]] : p \in Permutations(DOMAIN vec) } \cap
  { s \in [DOMAIN vec -> {vec[i] : i \in DOMAIN vec}] :
      \A i, j \in DOMAIN vec : i < j => ~OrderWordCounts(s[j], s[i]) }

\* the index at which the saved count of </s> is written back after the sort
RestoreIndex(indexEos, sorted) == indexEos

\* mutant: the map is not rebuilt after the sort
StaleWord2Index(vec) == m_mapWord2Index

\* the loop that rebuilds word -> index from the sorted vector
RebuildWord2Index(vec) ==
  [w \in {vec[i].word : i \in DOMAIN vec} |->
     CHOOSE i \in DOMAIN vec :
       /\ vec[i].word = w
       /\ \A j \in DOMAIN vec : vec[j].word = w => j <= i]

\* the loop that rebuilds index -> word from the sorted vector
RebuildIndex2Word(vec) == [i \in DOMAIN vec |-> vec[i].word]

SortVocabularyByFrequency ==
  LET indexEos == SearchWordInVocabulary(EOS) IN
  /\ indexEos # -1   \* callers add </s> first; m_vocabularyStorage[-1] otherwise
  /\ LET countEos == m_vocabularyStorage[indexEos].cn
         forced == [m_vocabularyStorage EXCEPT ![indexEos].cn = INT_MAX]
     IN \E sorted \in StdSort(forced) :
          LET restored == [sorted EXCEPT ![RestoreIndex(indexEos, sorted)].cn = countEos]
          IN /\ m_vocabularyStorage' = restored
             /\ m_mapWord2Index' = RebuildWord2Index(restored)
             /\ m_mapIndex2Word' = RebuildIndex2Word(restored)
  /\ op' = [name |-> "Sort", word |-> EOS, count |-> 0]
  /\ before' = m_vocabularyStorage
  /\ onlyAdds' = FALSE
  /\ calls' = [w \in Words |-> 0]
  /\ UNCHANGED <<m_mapWord2Class, m_classes, m_classWords, m_numClasses,
                 m_useClassFile, file, ret, ok, status>>

(* --------------------------- specification ----------------------------- *)
NoFile == [open |-> FALSE, pairs |-> <<>>]

Init ==
  /\ m_vocabularyStorage = EmptyVec
  /\ m_mapWord2Index = EmptyVec
  /\ m_mapIndex2Word = EmptyVec
  /\ m_mapWord2Class = EmptyVec
  /\ m_classes = {}
  /\ m_classWords = EmptyVec
  /\ m_numClasses = 1
  /\ m_useClassFile = FALSE
  /\ file = NoFile
  /\ op = [name |-> "new", word |-> EOS, count |-> 0]
  /\ ret = -1
  /\ ok = TRUE
  /\ status = "ok"
  /\ before = EmptyVec
  /\ calls = [w \in Words |-> 0]
  /\ onlyAdds = TRUE

Next ==
  \/ \E word \in Words : AddWordToVocabulary(word)
  \/ \E word \in Words, count \in 0..MaxCount : SetWordCount(word, count)
  \/ SortVocabularyByFrequency

Spec == Init /\ [][Next]_vars

(* ======================= properties of Spec ============================ *)
WordsOf(vec) == {vec[i].word : i \in DOMAIN vec}

IndexIn(vec, w) == CHOOSE i \in DOMAIN vec : vec[i].word = w

CountIn(vec, w) == vec[IndexIn(vec, w)].cn

AfterSort == op.name = "Sort"

NonIncreasingFrom1(vec) ==
  \A i, j \in DOMAIN vec : (1 <= i /\ i < j) => vec[i].cn >= vec[j].cn

\* C1: after SortVocabularyByFrequency on a vocabulary that contains </s>
\* and whose counts are all below INT_MAX, </s> is the entry at index 0 and
\* the counts at indices >= 1 are non-increasing.
C1_SortedAfterSort ==
  (AfterSort /\ \A i \in DOMAIN before : before[i].cn < INT_MAX)
    => /\ m_vocabularyStorage[0].word = EOS
       /\ NonIncreasingFrom1(m_vocabularyStorage)

\* C2: SortVocabularyByFrequency only permutes entries: every word has the
\* count after the call that it had before it, wherever </s> was.
C2_SortKeepsCounts ==
  AfterSort =>
    /\ WordsOf(m_vocabularyStorage) = WordsOf(before)
    /\ Size(m_vocabularyStorage) = Size(before)
    /\ \A w \in WordsOf(before) : CountIn(m_vocabularyStorage, w) = CountIn(before, w)

DistinctNonSentinelCounts(vec) ==
  \A i, j \in DOMAIN vec :
    (i # j /\ vec[i].word # EOS /\ vec[j].word # EOS) => vec[i].cn # vec[j].cn

\* C3: when the non-sentinel counts of the vocabulary were pairwise distinct,
\* a second SortVocabularyByFrequency right after a first one leaves the
\* entries, their counts and both maps as the first call left them.
C3_SortIdempotent ==
  [][ (AfterSort /\ op'.name = "Sort" /\ DistinctNonSentinelCounts(before))
        => /\ m_vocabularyStorage' = m_vocabularyStorage
           /\ m_mapWord2Index' = m_mapWord2Index
           /\ m_mapIndex2Word' = m_mapIndex2Word ]_vars

\* C8: the two maps and the vector agree after any sequence of
\* AddWordToVocabulary, SetWordCount and SortVocabularyByFrequency calls:
\* one key per entry in each map, index -> word gives the word of entry i,
\* word -> index gives i back, no word has two entries, and
\* SearchWordInVocabulary is -1 exactly for the words without an entry.
C8_MapsInSync ==
  /\ DOMAIN m_mapIndex2Word = DOMAIN m_vocabularyStorage
  /\ DOMAIN m_mapWord2Index = WordsOf(m_vocabularyStorage)
  /\ Cardinality(DOMAIN m_mapWord2Index) = GetVocabularySize
  /\ \A i \in DOMAIN m_vocabularyStorage :
       /\ m_mapIndex2Word[i] = m_vocabularyStorage[i].word
       /\ m_mapWord2Index[m_vocabularyStorage[i].word] = i
  /\ \A i, j \in DOMAIN m_vocabularyStorage :
       m_vocabularyStorage[i].word = m_vocabularyStorage[j].word => i = j
  /\ \A w \in Words :
       (SearchWordInVocabulary(w) = -1) <=> (w \notin WordsOf(m_vocabularyStorage))

\* a sort that moved entries of a three-word vocabulary
C8_Witness ==
  /\ AfterSort
  /\ GetVocabularySize = 3
  /\ \E i \in DOMAIN before : before[i].word # m_vocabularyStorage[i].word

\* one AddWordToVocabulary step, as the claim describes it
AddStepAsClaimed ==
  LET word == op'.word
      index == SearchWordInVocabulary(word)
      n == GetVocabularySize
  IN IF index = -1
       THEN /\ DOMAIN m_vocabularyStorage' = 0..n
            /\ m_vocabularyStorage'[n].word = word
            /\ m_vocabularyStorage'[n].cn = 1
            /\ ret' = n
            /\ m_mapWord2Index'[word] = n
            /\ \A i \in 0..(n-1) : m_vocabularyStorage'[i] = m_vocabularyStorage[i]
            /\ \A w \in DOMAIN m_mapWord2Index : m_mapWord2Index'[w] = m_mapWord2Index[w]
            /\ m_mapIndex2Word'[n] = word
            /\ \A i \in DOMAIN m_mapIndex2Word : m_mapIndex2Word'[i] = m_mapIndex2Word[i]
       ELSE /\ DOMAIN m_vocabularyStorage' = DOMAIN m_vocabularyStorage
            /\ ret' = index
            /\ m_vocabularyStorage'[index].word = word
            /\ m_vocabularyStorage'[index].cn = m_vocabularyStorage[index].cn + 1
            /\ \A i \in 0..(n-1) :
                 i # index => m_vocabularyStorage'[i] = m_vocabularyStorage[i]
            /\ m_mapWord2Index' = m_mapWord2Index
            /\ m_mapIndex2Word' = m_mapIndex2Word

\* one SetWordCount step on an unknown word, as the claim describes it
SetUnknownAsClaimed ==
  SearchWordInVocabulary(op'.word) = -1 =>
    /\ ok' = FALSE
    /\ m_vocabularyStorage' = m_vocabularyStorage
    /\ m_mapWord2Index' = m_mapWord2Index
    /\ m_mapIndex2Word' = m_mapIndex2Word

\* after AddWordToVocabulary calls only: counts are call counts, size is the
\* number of distinct words added
CountsAreCallCounts ==
  onlyAdds =>
    /\ \A w \in Words :
         IF calls[w] = 0 THEN w \notin WordsOf(m_vocabularyStorage)
         ELSE /\ w \in WordsOf(m_vocabularyStorage)
              /\ CountIn(m_vocabularyStorage, w) = calls[w]
    /\ GetVocabularySize = Cardinality({w \in Words : calls[w] > 0})

FileWords == {EOS, BOS, "a", "b"}

ClassIds == (0 - 2)..MaxClassId

FilePairs == [w : FileWords, clnum : ClassIds]

\* a file that cannot be opened, or the (word, class) pairs fscanf yields
Files ==
  {NoFile} \cup
  { [open |-> TRUE, pairs |-> p] :
      p \in UNION { [1..n -> FilePairs] : n \in 0..MaxPairs } }

\* the locals of ReadClasses before its while loop
ReadStart ==
  [map |-> m_mapWord2Class, classes |-> m_classes, words |-> {},
   max_class |-> -1, eos_class |-> -1, bad |-> FALSE]

\* mutant: <s> is read like any other word
NeverStartToken(w) == FALSE

\* true when the pair read is refused (the word is <s>)
IsStartToken(w) == w = BOS

\* the while loop over the pairs: stops with bad at the first <s>
RECURSIVE ReadLoop(_, _, _)
ReadLoop(pairs, i, st) ==
  IF i > Len(pairs) THEN st
  ELSE LET w == pairs[i].w
           clnum == pairs[i].clnum
       IN IF IsStartToken(w) THEN [st EXCEPT !.bad = TRUE]
          ELSE ReadLoop(pairs, i + 1,
                 [map |-> MapPut(st.map, w, clnum),
                  classes |-> st.classes \cup {clnum},
                  words |-> st.words \cup {w},
                  max_class |-> IF clnum > st.max_class THEN clnum ELSE st.max_class,
                  eos_class |-> IF w = EOS THEN clnum ELSE st.eos_class,
                  bad |-> FALSE])

\* mutant: the words of the top class are not given the class of </s>
SwappedClassOneWay(c, eos_class, max_class) ==
  IF c = eos_class THEN max_class ELSE c

\* the class a word ends with in the loop over words that swaps the classes
SwappedClass(c, eos_class, max_class) ==
  IF c = eos_class THEN max_class
  ELSE IF c = max_class THEN eos_class
  ELSE c

SwapClasses(map, words, eos_class, max_class) ==
  [w \in DOMAIN map |->
     IF w \in words THEN SwappedClass(map[w], eos_class, max_class) ELSE map[w]]

ReadClasses ==
  /\ op.name = "new"
  /\ IF ~file.open
       THEN /\ ok' = FALSE
            /\ UNCHANGED <<m_mapWord2Class, m_classes>>
       ELSE LET st == ReadLoop(file.pairs, 1, ReadStart) IN
            /\ m_classes' = st.classes
            /\ IF st.bad \/ st.eos_class = -1 \/ Size(st.map) = 0
                 THEN /\ ok' = FALSE
                      /\ m_mapWord2Class' = st.map
                 ELSE /\ ok' = TRUE
                      /\ m_mapWord2Class' =
                           SwapClasses(st.map, st.words, st.eos_class, st.max_class)
  /\ op' = [name |-> "ReadClasses", word |-> EOS, count |-> 0]
  /\ UNCHANGED <<m_vocabularyStorage, m_mapWord2Index, m_mapIndex2Word,
                 m_classWords, m_numClasses, m_useClassFile, file, ret, status,
                 before, calls, onlyAdds>>

InitRead ==
  /\ m_vocabularyStorage = EmptyVec
  /\ m_mapWord2Index = EmptyVec
  /\ m_mapIndex2Word = EmptyVec
  /\ m_mapWord2Class = EmptyVec
  /\ m_classes = {}
  /\ m_classWords = EmptyVec
  /\ m_numClasses = 1
  /\ m_useClassFile = TRUE
  /\ file \in Files
  /\ op = [name |-> "new", word |-> EOS, count |-> 0]
  /\ ret = -1
  /\ ok = TRUE
  /\ status = "ok"
  /\ before = EmptyVec
  /\ calls = [w \in Words |-> 0]
  /\ onlyAdds = TRUE

NextRead == ReadClasses

SpecRead == InitRead /\ [][NextRead]_vars

(* ====================== properties of SpecRead ========================= *)
AfterRead == op.name = "ReadClasses"

PairIndexes == 1..Len(file.pairs)

WordsRead == {file.pairs[i].w : i \in PairIndexes}

IdsRead == {file.pairs[i].clnum : i \in PairIndexes}

MaxIdRead == CHOOSE c \in IdsRead : \A d \in IdsRead : d <= c

\* the class id of the last pair of the file that names w
ReadWith(w) ==
  file.pairs[CHOOSE i \in PairIndexes :
               /\ file.pairs[i].w = w
               /\ \A j \in PairIndexes : file.pairs[j].w = w => j <= i].clnum

SameSharing ==
  \A v, w \in WordsRead :
    (m_mapWord2Class[v] = m_mapWord2Class[w]) <=> (ReadWith(v) = ReadWith(w))

\* C6 as stated: for any accepted file, </s> gets the maximum class id
\* read, the words read with the maximum get the id </s> was read with,
\* every other word keeps the id it was read with, and the sharing of
\* classes is as in the file.
C6_SwapAsStated ==
  (AfterRead /\ ok) =>
    /\ m_mapWord2Class[EOS] = MaxIdRead
    /\ \A w \in WordsRead \ {EOS} :
         IF ReadWith(w) = MaxIdRead
           THEN m_mapWord2Class[w] = ReadWith(EOS)
           ELSE m_mapWord2Class[w] = ReadWith(w)
    /\ SameSharing

\* C6 amended: for any accepted file whose largest class id is not below
\* -1, </s> and the words read with the id of </s> get the maximum class
\* id read, the words read with the maximum (and not with the id of </s>)
\* get the id </s> was read with, every other word keeps the id it was read
\* with, and two words share a class afterwards iff they did in the file.
C6_SwapIsRelabelling ==
  (AfterRead /\ ok /\ MaxIdRead >= -1) =>
    /\ DOMAIN m_mapWord2Class = WordsRead
    /\ m_mapWord2Class[EOS] = MaxIdRead
    /\ \A w \in WordsRead :
         m_mapWord2Class[w] =
           IF ReadWith(w) = ReadWith(EOS) THEN MaxIdRead
           ELSE IF ReadWith(w) = MaxIdRead THEN ReadWith(EOS)
           ELSE ReadWith(w)
    /\ SameSharing

\* an accepted file in which </s>, a word of the top class and a third
\* word have three different ids, so that two ids are exchanged
C6_Witness ==
  /\ AfterRead /\ ok
  /\ MaxIdRead >= 0
  /\ ReadWith(EOS) < MaxIdRead
  /\ \E w \in WordsRead : ReadWith(w) = MaxIdRead /\ m_mapWord2Class[w] = ReadWith(EOS)
  /\ \E w \in WordsRead : ReadWith(w) \notin {MaxIdRead, ReadWith(EOS)}

\* C7: ReadClasses returns false when the file cannot be opened, when a
\* pair names <s>, when no pair names </s> and when the file has no pair;
\* it returns true for every openable file with non-negative class ids
\* that names </s> and does not name <s>.
C7_ReadClassesResult ==
  AfterRead =>
    /\ (~file.open \/ BOS \in WordsRead \/ EOS \notin WordsRead
          \/ Len(file.pairs) = 0) => ~ok
    /\ (file.open /\ (\A c \in IdsRead : c >= 0) /\ EOS \in WordsRead
          /\ BOS \notin WordsRead) => ok

\* a file refused for a <s> that comes after a well-formed </s> pair
C7_Witness ==
  /\ AfterRead
  /\ ~ok
  /\ file.open
  /\ Len(file.pairs) >= 2
  /\ file.pairs[1].w = EOS /\ file.pairs[1].clnum >= 0
  /\ BOS \in WordsRead

(* ======================== AssignWordsToClasses ========================= *)
\* the words of the vocabularies drawn for AssignWordsToClasses, by index
WordList == <<EOS, "the", "cat", "dog", "a", "b", "c", "d">>

\* the counts drawn (all positive)
CountSet == {1, 2, 3, 4, 5, 100}

\* the class ids entries carry before the class-file pass
EntryClassIds == (0 - 1)..MaxClassId

\* --- frequency-based classes ---
\* double is modelled in fixed point.  sqrt(cn / (double)b) / dd equals
\* sqrt(cn) / (sum of sqrt(cn_j)), b cancelling; df and dd are carried as
\* numerators over the common unit 1/Scale: a lower bound (the floors of
\* the square roots) and the number of terms that were rounded down, each
\* by less than one unit.

\* int b: the sum of the counts
RECURSIVE TotalCount(_, _)
TotalCount(vec, i) ==
  IF i >= Size(vec) THEN 0 ELSE vec[i].cn + TotalCount(vec, i + 1)

RECURSIVE ISqrt(_, _, _)
ISqrt(n, lo, hi) ==
  IF lo >= hi THEN lo
  ELSE LET mid == (lo + hi + 1) \div 2
       IN IF mid * mid <= n THEN ISqrt(n, mid, hi) ELSE ISqrt(n, lo, mid - 1)

\* floor(sqrt(cn) * Scale), for the counts drawn
RootTable == [cn \in CountSet |-> ISqrt(cn * Scale * Scale, 0, 11 * Scale)]

Root(cn) == RootTable[cn]

\* 0 when Root(cn) is exact, 1 when it was rounded down
RootErr(cn) == IF Root(cn) * Root(cn) = cn * Scale * Scale THEN 0 ELSE 1

\* double dd, as [lo, err]
RECURSIVE SumRoots(_, _)
SumRoots(vec, i) ==
  IF i >= Size(vec) THEN [lo |-> 0, err |-> 0]
  ELSE LET rest == SumRoots(vec, i + 1)
       IN [lo |-> Root(vec[i].cn) + rest.lo, err |-> RootErr(vec[i].cn) + rest.err]

\* the outcomes of df > (a + 1) / (double)sizeClasses.  After the clamp
\* df <= 1, so the test is false when a + 1 = sizeClasses.  When the bounds
\* on df and dd do not decide the test, the rounding of the doubles decides
\* it and either outcome is possible.
DfExceeds(df, dd, a, sizeClasses) ==
  IF a + 1 >= sizeClasses THEN {FALSE}
  ELSE IF sizeClasses * df.lo > (a + 1) * (dd.lo + dd.err) THEN {TRUE}
  ELSE IF sizeClasses * (df.lo + df.err) < (a + 1) * dd.lo THEN {FALSE}
  ELSE {TRUE, FALSE}

\* mutant: the class is written after the pointer has moved
FreqClassAfterAdvance(a, exceeds, sizeClasses) ==
  IF exceeds /\ a < sizeClasses - 1 THEN a + 1 ELSE a

\* the class written to entry i, given the class pointer a before the test
FreqClassOf(a, exceeds, sizeClasses) == a

\* the class pointer after entry i
FreqAdvance(a, exceeds, sizeClasses) ==
  IF exceeds /\ a < sizeClasses - 1 THEN a + 1 ELSE a

\* the third loop of the frequency branch, from entry i on: the set of
\* vectors it can produce
RECURSIVE FreqLoop(_, _, _, _, _, _)
FreqLoop(vec, i, df, a, dd, sizeClasses) ==
  IF i >= Size(vec) THEN {vec}
  ELSE LET added == [lo |-> df.lo + Root(vec[i].cn),
                     err |-> df.err + RootErr(vec[i].cn)]
           clamped == IF added.lo > dd.lo + dd.err THEN [lo |-> dd.lo, err |-> dd.err]
                      ELSE added
       IN UNION { FreqLoop([vec EXCEPT ![i].classIndex =
                                        FreqClassOf(a, exceeds, sizeClasses)],
                           i + 1, clamped, FreqAdvance(a, exceeds, sizeClasses),
                           dd, sizeClasses) :
                  exceeds \in DfExceeds(clamped, dd, a, sizeClasses) }

FrequencyClasses(vec, sizeClasses) ==
  FreqLoop(vec, 0, [lo |-> 0, err |-> 0], 0, SumRoots(vec, 0), sizeClasses)

\* --- classes from a class file ---
\* the class written to entry i when its class differs from last (++cnum)
\* and when it does not (cnum)
ClassFileId(classIndex, last, cnum) ==
  IF classIndex # last THEN cnum + 1 ELSE cnum

RECURSIVE ClassFileLoop(_, _, _, _)
ClassFileLoop(vec, i, cnum, last) ==
  IF i >= Size(vec) THEN vec
  ELSE LET id == ClassFileId(vec[i].classIndex, last, cnum)
       IN ClassFileLoop([vec EXCEPT ![i].classIndex = id], i + 1, id,
                        vec[i].classIndex)

ClassFileClasses(vec) == ClassFileLoop(vec, 0, -1, -1)

\* --- m_classWords ---
RECURSIVE MembersFrom(_, _, _)
MembersFrom(vec, c, i) ==
  IF i >= Size(vec) THEN <<>>
  ELSE IF vec[i].classIndex = c THEN <<i>> \o MembersFrom(vec, c, i + 1)
  ELSE MembersFrom(vec, c, i + 1)

\* resize, clear, then push every index on the vector of its class
BuildClassWords(vec, sizeClasses) ==
  [c \in 0..(sizeClasses - 1) |-> MembersFrom(vec, c, 0)]

\* the final loop: assert(!(m_classWords[i].empty()))
NoEmptyClass(classWords) ==
  IF \A c \in DOMAIN classWords : Len(classWords[c]) > 0 THEN "ok" ELSE "assert_failed"

\* m_classWords[wordClass] with wordClass outside 0..sizeClasses-1 writes
\* out of bounds: the run dies there, or goes on to the assertion
EndOfAssign(vec, sizeClasses) ==
  IF \A i \in DOMAIN vec : vec[i].classIndex \in 0..(sizeClasses - 1)
    THEN {NoEmptyClass(BuildClassWords(vec, sizeClasses))}
    ELSE {"out_of_bounds", NoEmptyClass(BuildClassWords(vec, sizeClasses))}

AssignWordsToClasses ==
  /\ op.name = "new"
  /\ LET sizeClasses == m_numClasses
         outcomes == IF m_useClassFile
                       THEN {ClassFileClasses(m_vocabularyStorage)}
                       ELSE FrequencyClasses(m_vocabularyStorage, sizeClasses)
     IN \E assigned \in outcomes :
          /\ m_vocabularyStorage' = assigned
          /\ m_classWords' = BuildClassWords(assigned, sizeClasses)
          /\ status' \in EndOfAssign(assigned, sizeClasses)
  /\ op' = [name |-> "Assign", word |-> EOS, count |-> 0]
  /\ before' = m_vocabularyStorage
  /\ UNCHANGED <<m_mapWord2Index, m_mapIndex2Word, m_mapWord2Class, m_classes,
                 m_numClasses, m_useClassFile, file, ret, ok, calls, onlyAdds>>

\* the vocabularies drawn: words WordList[1..n]; with frequency classes any
\* positive counts and the class of a fresh entry, with a class file any
\* class ids and the count of a word seen once
DrawnVocabularies(useClassFile) ==
  UNION { { [i \in 0..(n - 1) |-> VocabWord(WordList[i + 1], cns[i], ids[i])] :
              cns \in [0..(n - 1) -> IF useClassFile THEN {1} ELSE CountSet],
              ids \in [0..(n - 1) -> IF useClassFile THEN EntryClassIds ELSE {0}] } :
          n \in 0..MaxVocab }

InitClasses ==
  /\ m_useClassFile \in BOOLEAN
  /\ m_vocabularyStorage \in DrawnVocabularies(m_useClassFile)
  /\ m_mapWord2Index = RebuildWord2Index(m_vocabularyStorage)
  /\ m_mapIndex2Word = RebuildIndex2Word(m_vocabularyStorage)
  /\ m_mapWord2Class = EmptyVec
  /\ m_classes = {}
  /\ m_classWords = EmptyVec
  /\ m_numClasses \in 1..MaxClasses
  /\ file = NoFile
  /\ op = [name |-> "new", word |-> EOS, count |-> 0]
  /\ ret = -1
  /\ ok = TRUE
  /\ status = "ok"
  /\ before = EmptyVec
  /\ calls = [w \in Words |-> 0]
  /\ onlyAdds = TRUE

NextClasses == AssignWordsToClasses

SpecClasses == InitClasses /\ [][NextClasses]_vars

(* ===================== properties of SpecClasses ======================= *)
AfterAssign == op.name = "Assign"

ClassOf(i) == m_vocabularyStorage[i].classIndex

LastIndex == GetVocabularySize - 1

FrequencyCase == AfterAssign /\ ~m_useClassFile /\ GetVocabularySize >= 1

ClassIdsInRange ==
  \A i \in DOMAIN m_vocabularyStorage : ClassOf(i) \in 0..(m_numClasses - 1)

\* C4 as stated: with frequency classes, for any non-empty vocabulary with
\* positive counts and any numClasses >= 1, every class id lies in
\* 0..numClasses-1 and every class has a member: the assertion never fails.
C4_NoEmptyClassAsStated ==
  FrequencyCase =>
    /\ ClassIdsInRange
    /\ \A c \in 0..(m_numClasses - 1) :
         \E i \in DOMAIN m_vocabularyStorage : ClassOf(i) = c
    /\ status = "ok"

\* C4 amended: with frequency classes, for any non-empty vocabulary with
\* positive counts and any numClasses >= 1, every class id lies in
\* 0..numClasses-1, entry 0 is in class 0 and the class id grows by 0 or 1
\* from one entry to the next; m_classWords lists each class's indices; the
\* no-empty-class assertion holds exactly when the last entry is in class
\* numClasses-1, and it fails whenever numClasses exceeds the vocabulary size.
C4_FrequencyClasses ==
  FrequencyCase =>
    /\ ClassIdsInRange
    /\ ClassOf(0) = 0
    /\ \A i \in 1..LastIndex : ClassOf(i) - ClassOf(i - 1) \in {0, 1}
    /\ DOMAIN m_classWords = 0..(m_numClasses - 1)
    /\ \A c \in DOMAIN m_classWords : \A i \in DOMAIN m_vocabularyStorage :
         (ClassOf(i) = c) <=> (\E k \in 1..Len(m_classWords[c]) : m_classWords[c][k] = i)
    /\ status \in {"ok", "assert_failed"}
    /\ (status = "ok") <=> (ClassOf(LastIndex) = m_numClasses - 1)
    /\ m_numClasses > GetVocabularySize => status = "assert_failed"

\* the assertion fails although there are at least as many words as
\* classes: the class pointer reached the last class too late
C4_Witness ==
  /\ FrequencyCase
  /\ m_numClasses >= 2
  /\ GetVocabularySize >= m_numClasses
  /\ ClassOf(LastIndex) = m_numClasses - 2
  /\ status = "assert_failed"

\* the vocabulary </s>:5, the:100, cat:3, dog:2
ScenarioVocabulary ==
  [i \in 0..3 |-> VocabWord(WordList[i + 1], <<5, 100, 3, 2>>[i + 1], 0)]

ScenarioCase ==
  /\ AfterAssign
  /\ ~m_useClassFile
  /\ m_numClasses = 2
  /\ before = ScenarioVocabulary

\* C5 as stated: for </s>:5, the:100, cat:3, dog:2 and numClasses = 2 the
\* total is 110, class 0 is {the} and class 1 is {</s>, cat, dog}.
C5_ScenarioAsStated ==
  ScenarioCase =>
    /\ TotalCount(before, 0) = 110
    /\ m_classWords[0] = <<1>>
    /\ m_classWords[1] = <<0, 2, 3>>
    /\ status = "ok"

\* C5 amended: for </s>:5, the:100, cat:3, dog:2 and numClasses = 2 the
\* total is 110, class 0 is {</s>, the} and class 1 is {cat, dog}, both
\* non-empty.
C5_Scenario ==
  ScenarioCase =>
    /\ TotalCount(before, 0) = 110
    /\ m_classWords[0] = <<0, 1>>
    /\ m_classWords[1] = <<2, 3>>
    /\ [i \in 0..3 |-> ClassOf(i)] = [i \in 0..3 |-> IF i <= 1 THEN 0 ELSE 1]
    /\ status = "ok"

C5_Witness == ScenarioCase /\ Len(m_classWords[0]) > 0 /\ Len(m_classWords[1]) > 0

\* every class id of vec fills one run of consecutive indices
SameClassContiguous(vec) ==
  \A i, j, k \in DOMAIN vec :
    (i < j /\ j < k /\ vec[i].classIndex = vec[k].classIndex)
      => vec[j].classIndex = vec[i].classIndex

\* the number of places up to i at which the class id of vec changes
RECURSIVE RunsBefore(_, _)
RunsBefore(vec, i) ==
  IF i = 0 THEN 0
  ELSE RunsBefore(vec, i - 1) +
       (IF vec[i].classIndex # vec[i - 1].classIndex THEN 1 ELSE 0)

\* C10: with a class file, when same-class words are contiguous, the class
\* ids are rewritten to 0..K-1 in order of first appearance, 0 at index 0
\* (K the number of runs), so every id is >= 0 and two words share an id
\* afterwards iff they did before, also when the first id was -1.
C10_DenseRenumbering ==
  (AfterAssign /\ m_useClassFile /\ SameClassContiguous(before)) =>
    /\ \A i \in DOMAIN m_vocabularyStorage :
         /\ ClassOf(i) = RunsBefore(before, i)
         /\ ClassOf(i) >= 0
    /\ \A i, j \in DOMAIN m_vocabularyStorage :
         (ClassOf(i) = ClassOf(j)) <=> (before[i].classIndex = before[j].classIndex)

====
